---- MODULE Spec2Model ----
(***************************************************************************)
(* Model of blivet/devicelibs/lvm.py: the extent-alignment and thin-pool    *)
(* sizing functions (getPossiblePhysicalExtents, clampSize, get_pv_space,   *)
(* get_pool_padding, is_valid_thin_pool_metadata_size,                      *)
(* is_valid_thin_pool_chunk_size).                                          *)
(*                                                                         *)
(* Sizes are byte counts far beyond 2^31 (16 GiB = 2^34), so a number is a  *)
(* sequence of decimal digits, most significant first, without leading     *)
(* zeros; zero is the empty sequence.  A Size is a record                   *)
(* [neg |-> BOOLEAN, dig |-> digits], the same sign/coefficient form the    *)
(* decimal type behind Size uses.                                           *)
(***************************************************************************)
EXTENDS Integers, Sequences, FiniteSets, TLC

VARIABLES inSize, inPesize, call, prev, pc, possiblePE, curpe,
          filterRejects, filterAccepts

vars == <<inSize, inPesize, call, prev, pc, possiblePE, curpe,
          filterRejects, filterAccepts>>

\* the latest call: the function, its arguments and what it returned
fn == call.fn

args == call.args

ret == call.ret

(***************************************************************************)
(* Natural numbers as digit sequences.                                      *)
(***************************************************************************)
Front(a) == SubSeq(a, 1, Len(a) - 1)

Last(a) == a[Len(a)]

AllZero(a) == \A i \in 1..Len(a) : a[i] = 0

\* drop leading zeros
NNorm(a) ==
    IF AllZero(a) THEN <<>>
    ELSE LET i == CHOOSE j \in 1..Len(a) :
                     a[j] # 0 /\ \A k \in 1..(j - 1) : a[k] = 0
         IN  SubSeq(a, i, Len(a))


RECURSIVE NToInt(_)
NToInt(a) == IF a = <<>> THEN 0 ELSE 10 * NToInt(Front(a)) + Last(a)

\* digit sequences of equal length
NCmpLex(a, b) ==
    IF a = b THEN 0
    ELSE LET i == CHOOSE j \in 1..Len(a) :
                     a[j] # b[j] /\ \A k \in 1..(j - 1) : a[k] = b[k]
         IN  IF a[i] < b[i] THEN -1 ELSE 1

NCmp(a, b) == IF Len(a) < Len(b) THEN -1
              ELSE IF Len(a) > Len(b) THEN 1
              ELSE NCmpLex(a, b)

\* The arithmetic works on four digits at a time: the i-th digit from the
\* right, the value of the last four digits, the digits before them, and
\* the four digits of a value below 10^4.
DigitR(a, i) == IF i <= Len(a) THEN a[Len(a) + 1 - i] ELSE 0

Low4(a) == DigitR(a, 1) + 10 * DigitR(a, 2) + 100 * DigitR(a, 3)
              + 1000 * DigitR(a, 4)

High4(a) == IF Len(a) <= 4 THEN <<>> ELSE SubSeq(a, 1, Len(a) - 4)

Digits4(v) == <<v \div 1000, (v \div 100) % 10, (v \div 10) % 10, v % 10>>

RECURSIVE NFromInt(_)
NFromInt(n) == IF n < 10000 THEN NNorm(Digits4(n))
               ELSE NFromInt(n \div 10000) \o Digits4(n % 10000)

RECURSIVE NAddC(_, _, _)
NAddC(a, b, c) ==
    IF a = <<>> /\ b = <<>> THEN (IF c = 0 THEN <<>> ELSE <<c>>)
    ELSE LET s == Low4(a) + Low4(b) + c
         IN  IF s >= 10000
             THEN NAddC(High4(a), High4(b), 1) \o Digits4(s - 10000)
             ELSE NAddC(High4(a), High4(b), 0) \o Digits4(s)

NAdd(a, b) == NNorm(NAddC(a, b, 0))

\* a - b for a >= b
RECURSIVE NSubB(_, _, _)
NSubB(a, b, c) ==
    IF a = <<>> THEN <<>>
    ELSE LET s == Low4(a) - Low4(b) - c
         IN  IF s < 0
             THEN NSubB(High4(a), High4(b), 1) \o Digits4(s + 10000)
             ELSE NSubB(High4(a), High4(b), 0) \o Digits4(s)

NSub(a, b) == NNorm(NSubB(a, b, 0))

\* a times m + c for m < 10^4
RECURSIVE NMulSmallC(_, _, _)
NMulSmallC(a, m, c) ==
    IF a = <<>> THEN NFromInt(c)
    ELSE LET s == Low4(a) * m + c
         IN  NMulSmallC(High4(a), m, s \div 10000) \o Digits4(s % 10000)

NMulSmall(a, m) == IF m = 0 THEN <<>> ELSE NNorm(NMulSmallC(a, m, 0))

NShift(a, k) == IF a = <<>> THEN <<>> ELSE a \o [i \in 1..k |-> 0]

RECURSIVE NMulBy(_, _)
NMulBy(a, b) == IF a = <<>> \/ b = <<>> THEN <<>>
                ELSE NAdd(NShift(NMulBy(a, High4(b)), 4),
                          NMulSmall(a, Low4(b)))

\* schoolbook product, one row per four digits of the shorter factor
NMul(a, b) == IF Len(a) < Len(b) THEN NMulBy(b, a) ELSE NMulBy(a, b)

\* <<quotient, remainder>> of a by a divisor m below 10^8: short division,
\* the running remainder is an integer
RECURSIVE NDivModShort(_, _)
NDivModShort(a, m) ==
    IF a = <<>> THEN <<(<<>>), 0>>
    ELSE LET h == NDivModShort(Front(a), m)
             v == h[2] * 10 + Last(a)
         IN  <<Append(h[1], v \div m), v % m>>

\* <<quotient, remainder>> of a by a longer divisor g: long division, one
\* digit of a at a time; the quotient may have leading zeros
RECURSIVE NDivModLong(_, _)
NDivModLong(a, g) ==
    IF a = <<>> THEN <<(<<>>), (<<>>)>>
    ELSE LET h == NDivModLong(Front(a), g)
             r == NNorm(Append(h[2], Last(a)))
             d == CHOOSE x \in 0..9 :
                      /\ NCmp(NMulSmall(g, x), r) <= 0
                      /\ NCmp(NMulSmall(g, x + 1), r) > 0
         IN  <<Append(h[1], d), NSub(r, NMulSmall(g, d))>>

\* <<quotient, remainder>> of a by g, g > 0
NDivMod(a, g) ==
    IF Len(g) <= 8
    THEN LET h == NDivModShort(a, NToInt(g))
         IN  <<NNorm(h[1]), NFromInt(h[2])>>
    ELSE LET h == NDivModLong(a, g)
         IN  <<NNorm(h[1]), h[2]>>

NMod(a, g) == NDivMod(a, g)[2]

NDiv(a, g) == NDivMod(a, g)[1]

(***************************************************************************)
(* decimal.Decimal values [neg, dig, exp] = (-1)^neg * dig * 10^exp and the *)
(* arithmetic of the default context: results are rounded to Prec          *)
(* significant digits, ties to even.                                       *)
(***************************************************************************)
Prec == 28

Dec(neg, dig, exp) == [neg |-> neg, dig |-> dig, exp |-> exp]

\* Decimal._fix: round a coefficient longer than Prec digits, half to even
DecFix(d) ==
    IF Len(d.dig) <= Prec THEN d
    ELSE LET k == Len(d.dig) - Prec
             kept == SubSeq(d.dig, 1, Prec)
             drop == SubSeq(d.dig, Prec + 1, Len(d.dig))
             up == \/ drop[1] > 5
                   \/ /\ drop[1] = 5
                      /\ (~AllZero(Tail(drop)) \/ kept[Prec] % 2 = 1)
             r == IF up THEN NAdd(kept, <<1>>) ELSE kept
         IN  IF Len(r) > Prec THEN Dec(d.neg, Front(r), d.exp + k + 1)
             ELSE Dec(d.neg, r, d.exp + k)

\* Decimal.__mul__
DecMul(a, b) ==
    DecFix(Dec(a.neg # b.neg, NMul(a.dig, b.dig), a.exp + b.exp))

\* strip trailing zeros of an exact quotient up to the ideal exponent
RECURSIVE DecStrip(_, _, _)
DecStrip(c, e, ideal) ==
    IF e < ideal /\ c # <<>> /\ Last(c) = 0 THEN DecStrip(Front(c), e + 1, ideal)
    ELSE <<c, e>>

\* Decimal.__truediv__ for nonzero operands
DecDiv(a, b) ==
    LET shift == Len(b.dig) - Len(a.dig) + Prec + 1
        e == a.exp - b.exp - shift
        qr == IF shift >= 0 THEN NDivMod(NShift(a.dig, shift), b.dig)
              ELSE NDivMod(a.dig, NShift(b.dig, 0 - shift))
        c == IF qr[2] # <<>>
             THEN (IF qr[1] = <<>> \/ Last(qr[1]) % 5 = 0
                   THEN NAdd(qr[1], <<1>>) ELSE qr[1])
             ELSE DecStrip(qr[1], e, a.exp - b.exp)[1]
        x == IF qr[2] # <<>> THEN e ELSE DecStrip(qr[1], e, a.exp - b.exp)[2]
    IN  DecFix(Dec(a.neg # b.neg, c, x))

(***************************************************************************)
(* Size: a Decimal subclass holding a whole number of bytes.  Every Size    *)
(* built from a Decimal drops the partial byte (rounds toward zero).        *)
(***************************************************************************)
Sz(neg, dig) == [neg |-> neg /\ dig # <<>>, dig |-> dig]

\* Size(value) for a Decimal value
Size(d) ==
    IF d.exp >= 0 THEN Sz(d.neg, NShift(d.dig, d.exp))
    ELSE IF 0 - d.exp >= Len(d.dig) THEN Sz(FALSE, <<>>)
    ELSE Sz(d.neg, SubSeq(d.dig, 1, Len(d.dig) + d.exp))

AsDec(s) == Dec(s.neg, s.dig, 0)

\* Size of a small integer byte count
Bytes(n) == IF n < 0 THEN Sz(TRUE, NFromInt(0 - n)) ELSE Sz(FALSE, NFromInt(n))

SizeZero == Bytes(0)

\* an exception leaving a function instead of a value
Raised(e) == [raised |-> e]

IsRaised(v) == "raised" \in DOMAIN v

\* Decimal.copy_negate: the other sign, the same digits, nothing rounded
CopyNegate(a) == Sz(~a.neg, a.dig)

\* Size.__neg__: Decimal.__neg__ rounds its result to the context precision
SizeNeg(a) == Size(DecFix(Dec(~a.neg, a.dig, 0)))

\* Size.__add__
SizeAdd(a, b) ==
    LET sum == IF a.neg = b.neg THEN Dec(a.neg, NAdd(a.dig, b.dig), 0)
               ELSE IF NCmp(a.dig, b.dig) >= 0
                    THEN Dec(a.neg, NSub(a.dig, b.dig), 0)
                    ELSE Dec(b.neg, NSub(b.dig, a.dig), 0)
    IN  Size(DecFix(sum))

\* Size.__sub__
SizeSub(a, b) == SizeAdd(a, CopyNegate(b))

\* Size.__mul__ by a Decimal (an int operand is converted to one)
SizeMul(a, m) == Size(DecMul(AsDec(a), m))

\* Size.__mod__: Decimal.__mod__ raises InvalidOperation for a divisor of
\* zero and for an integer quotient of more than Prec digits; the remainder
\* has the dividend's sign and is rounded to the context precision
SizeMod(a, b) ==
    IF b.dig = <<>> THEN Raised("InvalidOperation")
    ELSE LET qr == NDivMod(a.dig, b.dig)
         IN  IF Len(qr[1]) > Prec THEN Raised("InvalidOperation")
             ELSE Size(DecFix(Dec(a.neg, qr[2], 0)))

\* -1, 0, 1 as a < b, a = b, a > b
SizeCmp(a, b) ==
    IF a.neg /\ ~b.neg THEN -1
    ELSE IF ~a.neg /\ b.neg THEN 1
    ELSE IF a.neg THEN NCmp(b.dig, a.dig)
    ELSE NCmp(a.dig, b.dig)

SizeLE(a, b) == SizeCmp(a, b) <= 0

SizeMin(a, b) == IF SizeCmp(b, a) < 0 THEN b ELSE a

\* Size("<n> <unit>"): n times 1024 to the power of the unit's rank
UnitRank(u) == CASE u = "B" -> 0 [] u = "KiB" -> 1 [] u = "MiB" -> 2
                 [] u = "GiB" -> 3 [] u = "TiB" -> 4 [] u = "PiB" -> 5
                 [] u = "EiB" -> 6

RECURSIVE NPow1024(_)
NPow1024(k) == IF k = 0 THEN <<1>> ELSE NMul(NPow1024(k - 1), <<1, 0, 2, 4>>)

SizeSpec(n, u) == Sz(FALSE, NMul(NFromInt(n), NPow1024(UnitRank(u))))

(***************************************************************************)
(* Module constants of lvm.py.                                              *)
(***************************************************************************)
LVM_PE_SIZE == SizeSpec(4, "MiB")

LVM_THINP_MIN_METADATA_SIZE == SizeSpec(2, "MiB")

LVM_THINP_MAX_METADATA_SIZE == SizeSpec(16, "GiB")

LVM_THINP_MIN_CHUNK_SIZE == SizeSpec(64, "KiB")

LVM_THINP_MAX_CHUNK_SIZE == SizeSpec(1, "GiB")

(***************************************************************************)
(* The pure functions.  roundup is "None", "False" or "True".               *)
(***************************************************************************)
\* clampSize taking any roundup other than None for a request to round up
clampSize_AnyFlagUp(size, pesize, roundup) ==
    LET delta == SizeMod(size, pesize)
    IN  IF IsRaised(delta) THEN delta
        ELSE IF delta = SizeZero THEN size
             ELSE IF roundup # "None"
                  THEN SizeAdd(size, SizeSub(pesize, delta))
                  ELSE SizeSub(size, delta)

\* an exception of size % pesize leaves clampSize; nothing in clampSize
\* looks at the sign of its arguments
clampSize(size, pesize, roundup) ==
    LET delta == SizeMod(size, pesize)
    IN  IF IsRaised(delta) THEN delta
        ELSE IF delta = SizeZero THEN size
             ELSE IF roundup = "True"
                  THEN SizeAdd(size, SizeSub(pesize, delta))
                  ELSE SizeSub(size, delta)

\* the two sizes getMaxLVSize names
MaxLVSize64 == SizeSpec(8, "EiB")

MaxLVSizeOther == SizeSpec(16, "TiB")

\* getMaxLVSize with s390 left out of the 64 bit architectures
getMaxLVSize_NoS390(arch) ==
    IF arch \in {"x86_64", "ppc64", "alpha", "ia64"}
    THEN MaxLVSize64
    ELSE MaxLVSizeOther

\* arch is what arch.getArch() returns
getMaxLVSize(arch) ==
    IF arch \in {"x86_64", "ppc64", "alpha", "ia64", "s390"}
    THEN MaxLVSize64
    ELSE MaxLVSizeOther

\* list.remove(x): the list without the first occurrence of x; the
\* ValueError for an x that is not in the list is caught by the caller, which
\* leaves the list as it is
ListRemove(l, x) ==
    IF \A i \in 1..Len(l) : l[i] # x THEN l
    ELSE LET i == CHOOSE j \in 1..Len(l) :
                     l[j] = x /\ \A k \in 1..(j - 1) : l[k] # x
         IN  SubSeq(l, 1, i - 1) \o SubSeq(l, i + 1, Len(l))

\* str.strip(","): the string without its leading and trailing commas
RECURSIVE StripCommas(_)
StripCommas(t) ==
    IF Len(t) = 0 THEN t
    ELSE IF SubSeq(t, 1, 1) = "," THEN StripCommas(SubSeq(t, 2, Len(t)))
    ELSE IF SubSeq(t, Len(t), Len(t)) = ","
         THEN StripCommas(SubSeq(t, 1, Len(t) - 1))
    ELSE t

\* the loop over the rejects: filter_string += ("\"r|/%s$|\"," % reject)
RECURSIVE FilterString(_)
FilterString(rejects) ==
    IF rejects = <<>> THEN ""
    ELSE FilterString(Front(rejects))
            \o "\"r|/" \o Last(rejects) \o "$|\","

\* the config_string of _getConfigArgs
ConfigString(rejects, read_only_locking) ==
    LET joined == FilterString(rejects)
        filter_string == IF joined # ""
                         THEN "filter=[" \o StripCommas(joined) \o "]"
                         ELSE joined
        names == "preferred_names=[\"^/dev/mapper/\", \"^/dev/md/\", \"^/dev/sd\"]"
        devices_string == IF filter_string # ""
                          THEN names \o " " \o filter_string
                          ELSE names
        devices == " devices { " \o devices_string \o " } "
        filtered == IF filter_string # "" THEN devices \o devices_string
                    ELSE devices
    IN  IF read_only_locking THEN filtered \o "global {locking_type=4} "
        ELSE filtered

_getConfigArgs(rejects, read_only_locking) ==
    <<"--config", ConfigString(rejects, read_only_locking)>>

\* get_pv_space charging one extent per disk
get_pv_space_PerDisk(size, disks, pesize) ==
    IF size = SizeZero THEN size
    ELSE SizeAdd(clampSize(size, pesize, "True"),
                 Sz(FALSE, NMulSmall(pesize.dig, disks)))

get_pv_space(size, disks, pesize) ==
    IF size = SizeZero THEN size
    ELSE SizeAdd(clampSize(size, pesize, "True"), pesize)

\* Decimal('0.2')
MultiplierForward == Dec(FALSE, <<2>>, -1)

\* 1/6 as the 17 digits of the binary double
MultiplierReverse_Double ==
    Dec(FALSE, <<1, 6, 6, 6, 6, 6, 6, 6, 6, 6, 6, 6, 6, 6, 6, 6, 6>>, -17)

\* Decimal('1.0') / Decimal('6')
MultiplierReverse == DecDiv(Dec(FALSE, <<1, 0>>, -1), Dec(FALSE, <<6>>, 0))

\* get_pool_padding without the metadata ceiling
get_pool_padding_NoCeiling(size, pesize, reverse) ==
    LET multiplier == IF ~reverse THEN MultiplierForward ELSE MultiplierReverse
    IN  clampSize(SizeMul(size, multiplier), pesize, "True")

\* get_pool_padding taking the larger of the padding and the ceiling
get_pool_padding_Max(size, pesize, reverse) ==
    LET multiplier == IF ~reverse THEN MultiplierForward ELSE MultiplierReverse
        a == clampSize(SizeMul(size, multiplier), pesize, "True")
        b == clampSize(LVM_THINP_MAX_METADATA_SIZE, pesize, "True")
    IN  IF SizeCmp(b, a) > 0 THEN b ELSE a

\* get_pool_padding using a fifth in both directions
get_pool_padding_NoReverse(size, pesize, reverse) ==
    SizeMin(clampSize(SizeMul(size, MultiplierForward), pesize, "True"),
            clampSize(LVM_THINP_MAX_METADATA_SIZE, pesize, "True"))

get_pool_padding(size, pesize, reverse) ==
    LET multiplier == IF ~reverse THEN MultiplierForward ELSE MultiplierReverse
    IN  SizeMin(clampSize(SizeMul(size, multiplier), pesize, "True"),
                clampSize(LVM_THINP_MAX_METADATA_SIZE, pesize, "True"))

\* is_valid_thin_pool_metadata_size with the upper end excluded
is_valid_thin_pool_metadata_size_Open(size) ==
    /\ SizeLE(LVM_THINP_MIN_METADATA_SIZE, size)
    /\ SizeCmp(size, LVM_THINP_MAX_METADATA_SIZE) < 0

is_valid_thin_pool_metadata_size(size) ==
    /\ SizeLE(LVM_THINP_MIN_METADATA_SIZE, size)
    /\ SizeLE(size, LVM_THINP_MAX_METADATA_SIZE)

\* The exponents k up to 30 (1 GiB, the largest size that reaches the
\* logarithm) for which the double quotient log(2^k) / log(2), which is what
\* math.log(x, 2) computes, is not the whole number k:
\* math.log(2**29, 2) is 29.000000000000004.
Log2Inexact == {29}

\* math.log(size, 2) % 1.0 == 0 for a size in the chunk range: the logarithm
\* of a size that is not a power of two is never a whole double there
FloatLog2IsWhole(size) ==
    \E k \in 0..30 : size.dig = NFromInt(2 ^ k) /\ k \notin Log2Inexact

\* is_valid_thin_pool_chunk_size asking for a power of two in both cases
is_valid_thin_pool_chunk_size_Pow2(size, discard) ==
    IF ~(SizeLE(LVM_THINP_MIN_CHUNK_SIZE, size)
         /\ SizeLE(size, LVM_THINP_MAX_CHUNK_SIZE))
    THEN FALSE
    ELSE FloatLog2IsWhole(size)

is_valid_thin_pool_chunk_size(size, discard) ==
    IF ~(SizeLE(LVM_THINP_MIN_CHUNK_SIZE, size)
         /\ SizeLE(size, LVM_THINP_MAX_CHUNK_SIZE))
    THEN FALSE
    ELSE IF discard THEN FloatLog2IsWhole(size)
    ELSE SizeMod(size, LVM_THINP_MIN_CHUNK_SIZE) = SizeZero

(***************************************************************************)
(* Bounds of the input domain.                                              *)
(***************************************************************************)
MaxSmall == 12

MaxGran == 4

MaxOff == 1

MaxPow == 25

MaxBlocks == 7

MaxMult == 4

MaxDisks == 2

MaxRejects == 3

Offsets == (0 - MaxOff)..MaxOff

\* a few bytes
SmallSizes == {Bytes(n) : n \in 0..MaxSmall}

\* multiples of 16 GiB up to past 100 GiB, a byte less and a byte more:
\* data and total sizes below, at and above the metadata ceiling
BlockSizes ==
    {SizeAdd(SizeSpec(16 * k, "GiB"), Bytes(o)) : k \in 1..MaxBlocks, o \in Offsets}

\* 2^j KiB, a byte less and a byte more: every extent size, and the limits
\* of the chunk and metadata ranges
PowSizes ==
    {SizeAdd(SizeSpec(2 ^ j, "KiB"), Bytes(o)) : j \in 0..MaxPow, o \in Offsets}

\* multiples of the minimum chunk size
ChunkMultiples ==
    {Sz(FALSE, NMulSmall(LVM_THINP_MIN_CHUNK_SIZE.dig, m)) : m \in 0..MaxMult}

\* sizes for the alignment and padding arithmetic
ArithSizes == SmallSizes \cup BlockSizes
                \cup {SizeSpec(10, "MiB"), SizeSpec(10, "GiB"), SizeSpec(100, "GiB")}

\* sizes for the range validators
RangeSizes == PowSizes \cup ChunkMultiples
                \cup {SizeSpec(100, "KiB"), SizeSpec(192, "KiB")}

Sizes == ArithSizes \cup RangeSizes

Grans == {Bytes(n) : n \in 1..MaxGran}
            \cup {SizeSpec(1, "KiB"), LVM_PE_SIZE, SizeSpec(3, "MiB"),
                  SizeSpec(1, "GiB"), SizeSpec(5, "GiB"), SizeSpec(16, "GiB")}

RoundUps == {"None", "False", "True"}

\* architecture names the architecture service may report
Archs == {"x86_64", "ppc64", "alpha", "ia64", "s390", "s390x", "i386",
          "aarch64"}

NoPrev == [set |-> FALSE]

\* regular expressions handed to the filter functions
Regexps == {"sda", "sdb", "vdb"}

\* what a function without a return value returns
None == [none |-> TRUE]

(***************************************************************************)
(* The state machine: the inputs are drawn once, every function may be     *)
(* called on them in any order; call records the latest call.             *)
(***************************************************************************)
Init ==
    /\ \/ inSize \in ArithSizes /\ inPesize \in Grans
       \/ inSize \in RangeSizes /\ inPesize = LVM_PE_SIZE
    /\ call = [fn |-> "none", args |-> [none |-> TRUE], ret |-> "none"]
    /\ prev = NoPrev
    /\ pc = "idle"
    /\ possiblePE = <<>>
    /\ curpe = SizeZero
    /\ filterRejects = <<>>
    /\ filterAccepts = <<>>

Returned(f, a, r) ==
    /\ call' = [fn |-> f, args |-> a, ret |-> r]
    /\ UNCHANGED <<inSize, inPesize, pc, possiblePE, curpe,
                   filterRejects, filterAccepts>>

CallClampSize ==
    /\ pc = "idle"
    /\ \E roundup \in RoundUps :
          Returned("clampSize",
                   [size |-> inSize, pesize |-> inPesize, roundup |-> roundup],
                   clampSize(inSize, inPesize, roundup))
    /\ prev' = NoPrev

CallGetPvSpace ==
    /\ pc = "idle"
    /\ \E disks \in 1..MaxDisks :
          Returned("get_pv_space",
                   [size |-> inSize, disks |-> disks, pesize |-> inPesize],
                   get_pv_space(inSize, disks, inPesize))
    /\ prev' = NoPrev

CallGetPoolPadding ==
    /\ pc = "idle"
    /\ \E reverse \in BOOLEAN :
          Returned("get_pool_padding",
                   [size |-> inSize, pesize |-> inPesize, reverse |-> reverse],
                   get_pool_padding(inSize, inPesize, reverse))
    /\ prev' = NoPrev

\* the caller adds the pad to the data size and asks for the pad of the total
CallGetPoolPaddingOfTotal ==
    /\ pc = "idle"
    /\ fn = "get_pool_padding"
    /\ ~args.reverse
    /\ ~prev.set
    /\ Returned("get_pool_padding",
                [size |-> SizeAdd(args.size, ret), pesize |-> args.pesize,
                 reverse |-> TRUE],
                get_pool_padding(SizeAdd(args.size, ret), args.pesize, TRUE))
    /\ prev' = [set |-> TRUE, data |-> args.size, pad |-> ret]

CallIsValidThinPoolMetadataSize ==
    /\ pc = "idle"
    /\ Returned("is_valid_thin_pool_metadata_size", [size |-> inSize],
                is_valid_thin_pool_metadata_size(inSize))
    /\ prev' = NoPrev

CallIsValidThinPoolChunkSize ==
    /\ pc = "idle"
    /\ \E discard \in BOOLEAN :
          Returned("is_valid_thin_pool_chunk_size",
                   [size |-> inSize, discard |-> discard],
                   is_valid_thin_pool_chunk_size(inSize, discard))
    /\ prev' = NoPrev

CallGetMaxLVSize ==
    /\ pc = "idle"
    /\ \E arch \in Archs :
          Returned("getMaxLVSize", [arch |-> arch], getMaxLVSize(arch))
    /\ prev' = NoPrev

\* the two sizes getPossiblePhysicalExtents names: where curpe starts and
\* the bound of its loop
PEFirst == SizeSpec(1, "KiB")

PELast == SizeSpec(16, "GiB")

\* the loop condition of getPossiblePhysicalExtents with the 16 GiB entry
\* left out
PELoopCondition_Exclusive(c) ==
    SizeCmp(c, PELast) < 0

\* while curpe <= Size("16 GiB")
PELoopCondition(c) ==
    SizeLE(c, PELast)

\* getPossiblePhysicalExtents: entry, one loop iteration, return
PEStart ==
    /\ pc = "idle"
    /\ pc' = "loop"
    /\ call' = [fn |-> "getPossiblePhysicalExtents", args |-> [none |-> TRUE],
                 ret |-> <<>>]
    /\ prev' = NoPrev
    /\ possiblePE' = <<>>
    /\ curpe' = PEFirst
    /\ UNCHANGED <<inSize, inPesize, filterRejects, filterAccepts>>

PEStep ==
    /\ pc = "loop"
    /\ PELoopCondition(curpe)
    /\ possiblePE' = Append(possiblePE, curpe)
    /\ curpe' = SizeMul(curpe, Dec(FALSE, <<2>>, 0))
    /\ UNCHANGED <<inSize, inPesize, call, prev, pc, filterRejects,
                   filterAccepts>>

PEReturn ==
    /\ pc = "loop"
    /\ ~PELoopCondition(curpe)
    /\ call' = [call EXCEPT !.ret = possiblePE]
    /\ pc' = "idle"
    /\ possiblePE' = <<>>
    /\ curpe' = SizeZero
    /\ UNCHANGED <<inSize, inPesize, prev, filterRejects, filterAccepts>>

Next ==
    \/ CallClampSize
    \/ CallGetPvSpace
    \/ CallGetPoolPadding
    \/ CallGetPoolPaddingOfTotal
    \/ CallIsValidThinPoolMetadataSize
    \/ CallIsValidThinPoolChunkSize
    \/ CallGetMaxLVSize
    \/ PEStart
    \/ PEStep
    \/ PEReturn

Spec == Init /\ [][Next]_vars

(***************************************************************************)
(* The reject list of the lvm filter, config_args_data["filterRejects"],    *)
(* and the functions that change and read it.  prev keeps the list as it    *)
(* was before the call.                                                     *)
(***************************************************************************)
FilterInit ==
    /\ Init
    /\ inSize = SizeZero
    /\ inPesize = LVM_PE_SIZE

FilterCalled(f, a, r) ==
    /\ call' = [fn |-> f, args |-> a, ret |-> r]
    /\ prev' = [set |-> FALSE, rejects |-> filterRejects]
    /\ UNCHANGED <<inSize, inPesize, pc, possiblePE, curpe>>

CallAddFilterRejectRegexp ==
    /\ pc = "idle"
    /\ Len(filterRejects) < MaxRejects
    /\ \E regexp \in Regexps :
          /\ filterRejects' = Append(filterRejects, regexp)
          /\ FilterCalled("lvm_cc_addFilterRejectRegexp",
                          [regexp |-> regexp], None)
    /\ UNCHANGED filterAccepts

CallRemoveFilterRejectRegexp ==
    /\ pc = "idle"
    /\ \E regexp \in Regexps :
          /\ filterRejects' = ListRemove(filterRejects, regexp)
          /\ FilterCalled("lvm_cc_removeFilterRejectRegexp",
                          [regexp |-> regexp], None)
    /\ UNCHANGED filterAccepts

CallResetFilter ==
    /\ pc = "idle"
    /\ filterRejects' = <<>>
    /\ filterAccepts' = <<>>
    /\ FilterCalled("lvm_cc_resetFilter", [none |-> TRUE], None)

CallGetConfigArgs ==
    /\ pc = "idle"
    /\ \E read_only_locking \in BOOLEAN :
          FilterCalled("_getConfigArgs",
                       [read_only_locking |-> read_only_locking],
                       _getConfigArgs(filterRejects, read_only_locking))
    /\ UNCHANGED <<filterRejects, filterAccepts>>

FilterNext ==
    \/ CallAddFilterRejectRegexp
    \/ CallRemoveFilterRejectRegexp
    \/ CallResetFilter
    \/ CallGetConfigArgs

FilterSpec == FilterInit /\ [][FilterNext]_vars

(***************************************************************************)
(* clampSize called outside its contract: a granularity of zero or below,   *)
(* or a size below zero.                                                    *)
(***************************************************************************)
ContractSizes == {Bytes(n) : n \in (0 - MaxSmall)..MaxSmall}
                    \cup {SizeSpec(10, "MiB"), SizeNeg(SizeSpec(10, "MiB"))}

ContractGrans == {Bytes(n) : n \in (0 - MaxGran)..MaxGran}
                    \cup {LVM_PE_SIZE, SizeNeg(LVM_PE_SIZE)}

ContractInit ==
    /\ inSize \in ContractSizes
    /\ inPesize \in ContractGrans
    /\ SizeLE(inPesize, SizeZero) \/ SizeCmp(inSize, SizeZero) < 0
    /\ call = [fn |-> "none", args |-> [none |-> TRUE], ret |-> "none"]
    /\ prev = NoPrev
    /\ pc = "idle"
    /\ possiblePE = <<>>
    /\ curpe = SizeZero
    /\ filterRejects = <<>>
    /\ filterAccepts = <<>>

ContractNext == CallClampSize

ContractSpec == ContractInit /\ [][ContractNext]_vars

\* The loop of getPossiblePhysicalExtents runs on once entered: the
\* interpreter goes on to the next statement of a call in progress, which is
\* weak fairness of the loop step and of the return.  For the loop step it
\* is written out, as "infinitely often disabled or infinitely often taken",
\* with ENABLED <<PEStep>>_vars given as the guard it equals (a step of
\* PEStep appends to possiblePE, so it changes vars whenever its guard
\* holds): TLC evaluates the guard at once, the doubling under ENABLED slowly.
PEStepFair ==
    \/ []<>~(pc = "loop" /\ PELoopCondition(curpe))
    \/ []<><<PEStep>>_vars

LiveSpec == Spec /\ PEStepFair /\ WF_vars(PEReturn)

TypeOK ==
    /\ pc \in {"idle", "loop"}
    /\ inSize \in Sizes
    /\ inPesize \in Grans

(***************************************************************************)
(* Arithmetic used to state the properties, computed another way than the  *)
(* functions compute it.                                                    *)
(***************************************************************************)
IsMultipleOf(x, g) == NDivMod(x.dig, g.dig)[2] = <<>>

\* the least multiple of g that is not below v, as g * ((v + g - 1) div g)
CeilTo(v, g) ==
    Sz(FALSE, NMul(g.dig, NDiv(NSub(NAdd(v.dig, g.dig), <<1>>), g.dig)))

\* v div n for a small integer n
DivBy(v, n) == Sz(FALSE, NDiv(v.dig, NFromInt(n)))

SizeLT(a, b) == SizeCmp(a, b) < 0

(***************************************************************************)
(* C1: for every size >= 0 and granularity g > 0, clampSize returns an      *)
(* exact multiple of g; with roundup true the result is not below the size, *)
(* with roundup false or left at its default it is not above the size; and  *)
(* a size that is already a multiple of g is returned unchanged in both     *)
(* directions.                                                              *)
(***************************************************************************)
C1_ClampSize ==
    (pc = "idle" /\ fn = "clampSize") =>
        /\ IsMultipleOf(ret, args.pesize)
        /\ (args.roundup = "True") => SizeLE(args.size, ret)
        /\ (args.roundup # "True") => SizeLE(ret, args.size)
        /\ IsMultipleOf(args.size, args.pesize) => ret = args.size

\* 10 MiB at 4 MiB extents is rounded up to 12 MiB
C1_Witness ==
    /\ fn = "clampSize"
    /\ args.size = SizeSpec(10, "MiB")
    /\ args.pesize = LVM_PE_SIZE
    /\ args.roundup = "True"
    /\ ret = SizeSpec(12, "MiB")

(***************************************************************************)
(* C2: get_pv_space returns zero for a size of zero; for a size above zero  *)
(* it returns the size rounded up to the extent size plus one extent, so an *)
(* aligned size costs size + pesize; the disks argument has no influence,   *)
(* the result being determined by size and pesize alone.                    *)
(***************************************************************************)
C2_PvSpace ==
    (pc = "idle" /\ fn = "get_pv_space") =>
        /\ (args.size = SizeZero) => ret = SizeZero
        /\ (args.size # SizeZero) =>
              ret = SizeAdd(CeilTo(args.size, args.pesize), args.pesize)
        /\ (args.size # SizeZero /\ IsMultipleOf(args.size, args.pesize)) =>
              ret = SizeAdd(args.size, args.pesize)

\* 10 GiB at 4 MiB extents costs 10 GiB + 4 MiB, on two disks as on one
C2_Witness ==
    /\ fn = "get_pv_space"
    /\ args.size = SizeSpec(10, "GiB")
    /\ args.pesize = LVM_PE_SIZE
    /\ args.disks = 2
    /\ ret = SizeAdd(SizeSpec(10, "GiB"), SizeSpec(4, "MiB"))

PoolCall == pc = "idle" /\ fn = "get_pool_padding"

(***************************************************************************)
(* C3: for every data size d and granularity g, the forward padding is the  *)
(* smaller of d * 0.2 (in whole bytes) rounded up to g and 16 GiB rounded   *)
(* up to g; so it never exceeds 16 GiB rounded up to g and is a multiple    *)
(* of g.                                                                    *)
(***************************************************************************)
C3_PoolPaddingForward ==
    (PoolCall /\ ~args.reverse) =>
        LET cap == CeilTo(SizeSpec(16, "GiB"), args.pesize)
            pad == CeilTo(DivBy(args.size, 5), args.pesize)
        IN  /\ ret = (IF SizeLT(cap, pad) THEN cap ELSE pad)
            /\ SizeLE(ret, cap)
            /\ IsMultipleOf(ret, args.pesize)

\* a padding that the rounding raised above the fifth of the data size, and
\* that stays below the ceiling
C3_Witness ==
    /\ PoolCall
    /\ ~args.reverse
    /\ args.size = SizeSpec(10, "MiB")
    /\ args.pesize = LVM_PE_SIZE
    /\ ret = SizeSpec(4, "MiB")

(***************************************************************************)
(* C4 as stated: the forward padding of 100 GiB at 4 MiB extents is 20 GiB, *)
(* a fifth of the data size rounded up to the granularity.                  *)
(***************************************************************************)
C4_Original ==
    (PoolCall /\ ~args.reverse /\ args.size = SizeSpec(100, "GiB")
        /\ args.pesize = LVM_PE_SIZE) =>
        ret = CeilTo(SizeSpec(20, "GiB"), SizeSpec(4, "MiB"))

(***************************************************************************)
(* C4 amended: the forward padding of 100 GiB at 4 MiB extents is 16 GiB:   *)
(* the fifth of the data size, 20 GiB, is above the metadata ceiling and    *)
(* the padding is the ceiling.                                              *)
(***************************************************************************)
C4_PoolPadding100GiB ==
    (PoolCall /\ ~args.reverse /\ args.size = SizeSpec(100, "GiB")
        /\ args.pesize = LVM_PE_SIZE) =>
        /\ ret = SizeSpec(16, "GiB")
        /\ SizeLT(ret, SizeSpec(20, "GiB"))

C4_Witness ==
    /\ PoolCall
    /\ ~args.reverse
    /\ args.size = SizeSpec(100, "GiB")
    /\ args.pesize = LVM_PE_SIZE
    /\ ret = LVM_THINP_MAX_METADATA_SIZE

(***************************************************************************)
(* C5: for every total size t and granularity g, the reverse padding is the *)
(* smaller of t / 6 (in whole bytes) rounded up to g and 16 GiB rounded up  *)
(* to g, as with the exact rational 1/6: for t = 6 * k * g below the        *)
(* ceiling it is k * g, never k * g + g.                                    *)
(***************************************************************************)
C5_PoolPaddingReverse ==
    (PoolCall /\ args.reverse) =>
        LET cap == CeilTo(SizeSpec(16, "GiB"), args.pesize)
            sixth == DivBy(args.size, 6)
            pad == CeilTo(sixth, args.pesize)
        IN  /\ ret = (IF SizeLT(cap, pad) THEN cap ELSE pad)
            /\ (/\ IsMultipleOf(args.size, Sz(FALSE, NMulSmall(args.pesize.dig, 6)))
                /\ SizeLT(sixth, cap)) => ret = sixth

\* 48 GiB = 6 * 2048 * 4 MiB gives exactly 2048 * 4 MiB = 8 GiB
C5_Witness ==
    /\ PoolCall
    /\ args.reverse
    /\ args.size = SizeSpec(48, "GiB")
    /\ args.pesize = LVM_PE_SIZE
    /\ ret = SizeSpec(8, "GiB")

(***************************************************************************)
(* C6: round trip: with p the forward padding of d at granularity g, the    *)
(* reverse padding of d + p at g differs from p by at most g, also when a   *)
(* side is capped at the ceiling.                                           *)
(***************************************************************************)
C6_RoundTrip ==
    (PoolCall /\ prev.set) =>
        /\ args.size = SizeAdd(prev.data, prev.pad)
        /\ SizeLE(SizeSub(ret, prev.pad), args.pesize)
        /\ SizeLE(SizeSub(prev.pad, ret), args.pesize)

\* the round trip of 100 GiB of data at 4 MiB extents, both sides capped
C6_Witness ==
    /\ PoolCall
    /\ prev.set
    /\ prev.data = SizeSpec(100, "GiB")
    /\ prev.pad = SizeSpec(16, "GiB")
    /\ args.size = SizeSpec(116, "GiB")
    /\ args.pesize = LVM_PE_SIZE
    /\ ret = SizeSpec(16, "GiB")

(***************************************************************************)
(* The chunk and metadata limits in bytes, written out.                     *)
(***************************************************************************)
Bytes64KiB == <<6, 5, 5, 3, 6>>

Bytes2MiB == <<2, 0, 9, 7, 1, 5, 2>>

Bytes1GiB == <<1, 0, 7, 3, 7, 4, 1, 8, 2, 4>>

Bytes16GiB == <<1, 7, 1, 7, 9, 8, 6, 9, 1, 8, 4>>

InChunkRange(s) ==
    ~s.neg /\ NCmp(Bytes64KiB, s.dig) <= 0 /\ NCmp(s.dig, Bytes1GiB) <= 0

\* a size in the chunk range is below 2^31 and converts to an integer
IsPowerOfTwo(s) == \E k \in 0..30 : NToInt(s.dig) = 2 ^ k

ChunkCall == pc = "idle" /\ fn = "is_valid_thin_pool_chunk_size"

(***************************************************************************)
(* C7: with discard required, a chunk size is valid exactly when it lies    *)
(* in 64 KiB .. 1 GiB and is a power of two: every power of two from        *)
(* 64 KiB through 1 GiB is valid, every other size is not.                  *)
(***************************************************************************)
C7_ChunkDiscard ==
    (ChunkCall /\ args.discard) =>
        (ret <=> (InChunkRange(args.size) /\ IsPowerOfTwo(args.size)))

(***************************************************************************)
(* C8: without discard, a chunk size is valid exactly when it lies in       *)
(* 64 KiB .. 1 GiB and is a multiple of 64 KiB; every size that is valid    *)
(* with discard is valid without it.                                        *)
(***************************************************************************)
C8_ChunkNoDiscard ==
    /\ (ChunkCall /\ ~args.discard) =>
          (ret <=> (InChunkRange(args.size) /\ NToInt(args.size.dig) % 65536 = 0))
    /\ (ChunkCall /\ args.discard /\ ret) =>
          is_valid_thin_pool_chunk_size(args.size, FALSE)

\* 192 KiB, three times 64 KiB and no power of two, is valid without discard
C8_Witness ==
    /\ ChunkCall
    /\ ~args.discard
    /\ args.size = SizeSpec(192, "KiB")
    /\ ret = TRUE

(***************************************************************************)
(* C9: a metadata size is valid exactly when it lies in 2 MiB .. 16 GiB,    *)
(* both ends included: valid at 2 MiB and at 16 GiB, not valid one byte     *)
(* below 2 MiB nor one byte above 16 GiB.                                   *)
(***************************************************************************)
C9_MetadataSize ==
    (pc = "idle" /\ fn = "is_valid_thin_pool_metadata_size") =>
        (ret <=> (/\ ~args.size.neg
                  /\ NCmp(Bytes2MiB, args.size.dig) <= 0
                  /\ NCmp(args.size.dig, Bytes16GiB) <= 0))

\* 16 GiB, the upper end, is valid
C9_Witness ==
    /\ fn = "is_valid_thin_pool_metadata_size"
    /\ args.size = SizeSpec(16, "GiB")
    /\ ret = TRUE

(***************************************************************************)
(* C10                                                                     *)
(***************************************************************************)
PEReturned ==
    /\ fn = "getPossiblePhysicalExtents"
    /\ pc = "idle"

\* the list the claim describes: 1 KiB, 2 KiB, 4 KiB, ... up to 2^24 KiB
ExpectedPE == [i \in 1..25 |-> SizeSpec(2 ^ (i - 1), "KiB")]

\* C10: getPossiblePhysicalExtents() terminates (a call that has entered its
\* loop always comes to return), and what it returns, on every call and
\* whatever was called before, is a strictly increasing sequence of exactly
\* 25 sizes, the first 1 KiB, the last 16 GiB, every entry exactly twice the
\* one before it.
C10_PossiblePhysicalExtents ==
    /\ [](PEReturned =>
            /\ Len(ret) = 25
            /\ ret[1] = SizeSpec(1, "KiB")
            /\ ret[25] = SizeSpec(16, "GiB")
            /\ \A i \in 1..24 :
                  /\ ret[i + 1] = SizeAdd(ret[i], ret[i])
                  /\ SizeLT(ret[i], ret[i + 1])
            /\ ret = ExpectedPE)
    /\ ((pc = "loop") ~> PEReturned)

C10_Witness ==
    /\ PEReturned
    /\ Len(ret) = 25
    /\ ret[25] = Sz(FALSE, Bytes16GiB)

(***************************************************************************)
(* C11: a call of clampSize that violates its precondition, a granularity   *)
(* of zero, a negative granularity or a negative size, is rejected: it      *)
(* raises, and never returns an ordinary size.                              *)
(***************************************************************************)
C11_ClampSizeRejects ==
    (/\ pc = "idle"
     /\ fn = "clampSize"
     /\ SizeLE(args.pesize, SizeZero) \/ SizeCmp(args.size, SizeZero) < 0) =>
        IsRaised(ret)

(***************************************************************************)
(* C12: getMaxLVSize returns 8 EiB when the architecture service reports    *)
(* one of x86_64, ppc64, alpha, ia64, s390, and 16 TiB for every other      *)
(* architecture; it returns nothing else.                                   *)
(***************************************************************************)
Bytes8EiB == <<9, 2, 2, 3, 3, 7, 2, 0, 3, 6, 8, 5, 4, 7, 7, 5, 8, 0, 8>>

Bytes16TiB == <<1, 7, 5, 9, 2, 1, 8, 6, 0, 4, 4, 4, 1, 6>>

WideAddress == {"x86_64", "ppc64", "alpha", "ia64", "s390"}

C12_MaxLVSize ==
    (pc = "idle" /\ fn = "getMaxLVSize") =>
        /\ (args.arch \in WideAddress) => ret = Sz(FALSE, Bytes8EiB)
        /\ (args.arch \notin WideAddress) => ret = Sz(FALSE, Bytes16TiB)
        /\ ret \in {Sz(FALSE, Bytes8EiB), Sz(FALSE, Bytes16TiB)}

\* s390 is in the set, s390x is not: here the 8 EiB of s390
C12_Witness ==
    /\ pc = "idle"
    /\ fn = "getMaxLVSize"
    /\ args.arch = "s390"
    /\ ret = Sz(FALSE, Bytes8EiB)

(***************************************************************************)
(* C13                                                                     *)
(***************************************************************************)
InList(l, x) == \E i \in 1..Len(l) : l[i] = x

\* the string t has the string u somewhere in it
Contains(t, u) ==
    \E i \in 1..(Len(t) - Len(u) + 1) : SubSeq(t, i, i + Len(u) - 1) = u

\* the entry of the filter for the regular expression r
RejectEntry(r) == "\"r|/" \o r \o "$|\""

\* C13: once lvm_cc_removeFilterRejectRegexp(r) has returned, whatever was
\* added, removed or reset before, r is not in the reject list and the
\* --config string _getConfigArgs builds has no reject entry for r; removing
\* an r that was not in the list leaves the list as it was and raises
\* nothing; after lvm_cc_resetFilter the reject list is empty.
C13_FilterRemove ==
    /\ (pc = "idle" /\ fn = "lvm_cc_removeFilterRejectRegexp") =>
          /\ ~InList(filterRejects, args.regexp)
          /\ \A read_only_locking \in BOOLEAN :
                ~Contains(_getConfigArgs(filterRejects, read_only_locking)[2],
                          RejectEntry(args.regexp))
          /\ ~InList(prev.rejects, args.regexp) =>
                (filterRejects = prev.rejects /\ ret = None)
    /\ (pc = "idle" /\ fn = "lvm_cc_resetFilter") => filterRejects = <<>>

====
